---- MODULE Spec2Model ----
(***************************************************************************)
(* A model of travel_advisory/main.py: the advisory pipeline               *)
(* (parse -> deduplicate -> classify -> verify) and the control flow of    *)
(* main() around it.  Text is modelled character by character: a Python    *)
(* str is a TLA+ string, s[i] is Char(s, i+1).  The functions of the       *)
(* program are TLA+ functions, f[x], so that an argument is evaluated      *)
(* once, as in Python.                                                     *)
(***************************************************************************)
EXTENDS Integers, Sequences, FiniteSets, TLC

(***************************************************************************)
(* Python str primitives                                                   *)
(***************************************************************************)

\* The characters of the model's texts: "\n" (10) and printable ASCII, as two
\* runs in code-point order, 32..95 and 97..126.
PrintableA == " !\"#$%&'()*+,-./0123456789:;<=>?@ABCDEFGHIJKLMNOPQRSTUVWXYZ[\\]^_"
PrintableB == "abcdefghijklmnopqrstuvwxyz{|}~"

Char(s, i) == SubSeq(s, i, i)

\* chr(n)
CharOf == [n \in {10} \cup (32..95) \cup (97..126) |->
             IF n = 10 THEN "\n"
             ELSE IF n <= 95 THEN Char(PrintableA, n - 31)
             ELSE Char(PrintableB, n - 96)]

\* ord(c)
Ord == [c \in {CharOf[n] : n \in DOMAIN CharOf} |->
          CHOOSE n \in DOMAIN CharOf : CharOf[n] = c]

IsUpperChar(c) == Ord[c] >= 65 /\ Ord[c] <= 90
IsLowerChar(c) == Ord[c] >= 97 /\ Ord[c] <= 122
IsDigit(c) == Ord[c] >= 48 /\ Ord[c] <= 57
\* \s of the re module and the characters str.strip() removes
IsSpace(c) == c = " " \/ c = "\n"

LowerChar(c) == IF IsUpperChar(c) THEN CharOf[Ord[c] + 32] ELSE c
UpperChar(c) == IF IsLowerChar(c) THEN CharOf[Ord[c] - 32] ELSE c

Min[S \in SUBSET Int] == CHOOSE p \in S : \A q \in S : p <= q
Max[S \in SUBSET Int] == CHOOSE p \in S : \A q \in S : p >= q

\* The characters a..b of s, each mapped to upper or lower case
MapChars[s \in STRING, a \in Int, b \in Int, up \in BOOLEAN] ==
  IF a > b THEN ""
  ELSE IF a = b THEN (IF up THEN UpperChar(Char(s, a)) ELSE LowerChar(Char(s, a)))
  ELSE MapChars[s, a, (a + b) \div 2, up] \o MapChars[s, (a + b) \div 2 + 1, b, up]

\* str.lower(), str.upper()
lower[s \in STRING] == MapChars[s, 1, Len(s), FALSE]
upper[s \in STRING] == MapChars[s, 1, Len(s), TRUE]

\* s[a-1:b] for 1-based inclusive bounds, empty when a > b
Slice[s \in STRING, a \in Int, b \in Int] == IF a > b THEN "" ELSE SubSeq(s, a, b)

\* str.strip()
strip[s \in STRING] ==
  LET keep == {i \in 1..Len(s) : ~IsSpace(Char(s, i))}
  IN  IF keep = {} THEN "" ELSE SubSeq(s, Min[keep], Max[keep])

\* s.startswith(p, i-1)
StartsAt[s \in STRING, i \in Int, p \in STRING] ==
  /\ i >= 1
  /\ i + Len(p) - 1 <= Len(s)
  /\ Slice[s, i, i + Len(p) - 1] = p

\* needle in hay
Contains[hay \in STRING, needle \in STRING] ==
  \E i \in 1..(Len(hay) + 1) : StartsAt[hay, i, needle]

\* a < b on str: lexicographic by code point
StrLess[a \in STRING, b \in STRING] ==
  \E k \in 1..Len(b) :
    /\ \A j \in 1..(k - 1) : j <= Len(a) /\ Char(a, j) = Char(b, j)
    /\ \/ k = Len(a) + 1
       \/ k <= Len(a) /\ Ord[Char(a, k)] < Ord[Char(b, k)]

\* first position p >= i with a non-space character (Len(s)+1 if none): \s*
SkipSpace[s \in STRING, i \in Int] ==
  Min[{p \in i..(Len(s) + 1) : p = Len(s) + 1 \/ ~IsSpace(Char(s, p))}]

(***************************************************************************)
(* Policy table                                                            *)
(***************************************************************************)

PROHIBITED_COUNTRY_NAMES ==
  { "china", "hong kong", "macau", "macao",
    "cuba",
    "iran",
    "north korea", "korea, north", "democratic people's republic of korea",
    "russia", "russian federation",
    "venezuela" }

\* The keys of PROHIBITED_COUNTRIES, in dict order
PROHIBITED_COUNTRIES == <<"China", "Cuba", "Iran", "North Korea", "Russia", "Venezuela">>

is_prohibited_country[country_name \in STRING] ==
  \E name_lower \in {strip[lower[country_name]]} :
    \/ name_lower \in PROHIBITED_COUNTRY_NAMES
    \/ \E prohibited \in PROHIBITED_COUNTRY_NAMES : Contains[name_lower, prohibited]

(***************************************************************************)
(* Title Parser                                                            *)
(***************************************************************************)

\* The tail  \s*-\s*Level\s*(\d)  of the title pattern matched at position
\* k (re.IGNORECASE); the position of the digit, or 0 when it does not match.
TitleTail[title \in STRING, k \in Int] ==
  LET p1 == SkipSpace[title, k]
      p2 == SkipSpace[title, p1 + 1]
      p3 == SkipSpace[title, p2 + 5]
  IN  IF ~StartsAt[title, p1, "-"] THEN 0
      ELSE IF ~(p2 + 4 <= Len(title) /\ lower[Slice[title, p2, p2 + 4]] = "level") THEN 0
      ELSE IF p3 <= Len(title) /\ IsDigit(Char(title, p3)) THEN p3
      ELSE 0

\* The ends k of the prefixes title[:k] that the lazy group (.+?) can take
TitleEnds[title \in STRING] ==
  {k \in 1..Len(title) :
     /\ \A j \in 1..k : Char(title, j) # "\n"
     /\ TitleTail[title, k + 1] # 0}

\* match.group(1).strip(), int(match.group(2)) for the group ending at k
TitleMatch[title \in STRING, k \in Int] ==
  [name  |-> strip[Slice[title, 1, k]],
   level |-> Ord[Char(title, TitleTail[title, k + 1])] - 48]

\* re.match(r'^(.+?)\s*-\s*Level\s*(\d)', title, re.IGNORECASE): the lazy
\* group takes the shortest non-empty newline-free prefix the tail follows.
parse_level_from_title[title \in STRING] ==
  IF TitleEnds[title] # {} THEN TitleMatch[title, Min[TitleEnds[title]]]
  ELSE [name |-> title, level |-> 0]

(***************************************************************************)
(* Text Normalizer                                                         *)
(***************************************************************************)

\* The entities the model's texts use, with what html.unescape makes of them
Entities == << <<"&amp;", "&">>, <<"&lt;", "<">>, <<"&gt;", ">">>,
               <<"&quot;", "\"">>, <<"&#39;", "'">> >>

\* first position p >= i with s[p] = c, or 0
FindChar[s \in STRING, i \in Int, c \in STRING] ==
  IF \E p \in i..Len(s) : Char(s, p) = c
  THEN Min[{p \in i..Len(s) : Char(s, p) = c}]
  ELSE 0

\* length of the run of character c that starts at i
RunLen[s \in STRING, i \in Int, c \in STRING] ==
  Min[{p \in i..(Len(s) + 1) : p = Len(s) + 1 \/ Char(s, p) # c}] - i

NoMatch == [len |-> 0, repl |-> ""]

\* A tag  <name[^>]*>  at i, closed by the first ">" at or after position from
TagMatch[s \in STRING, i \in Int, from \in Int, repl \in STRING] ==
  IF FindChar[s, from, ">"] # 0
  THEN [len |-> FindChar[s, from, ">"] - i + 1, repl |-> repl]
  ELSE NoMatch

\* <br\s*/?> at i, its \s* ending before position p
BrMatch[s \in STRING, i \in Int, p \in Int] ==
  IF StartsAt[s, p, "/>"] THEN [len |-> p - i + 2, repl |-> "\n"]
  ELSE IF StartsAt[s, p, ">"] THEN [len |-> p - i + 1, repl |-> "\n"]
  ELSE NoMatch

CleanKinds == {"entity", "br", "p", "endp", "li", "tag", "newlines", "spaces"}

\* The match of one of clean_html's patterns at position i: its length (0:
\* no match there) and its replacement.
CleanMatch[kind \in CleanKinds, s \in STRING, i \in Int] ==
  CASE kind = "entity" ->
         IF \E k \in 1..Len(Entities) : StartsAt[s, i, Entities[k][1]]
         THEN LET k == CHOOSE k \in 1..Len(Entities) : StartsAt[s, i, Entities[k][1]]
              IN  [len |-> Len(Entities[k][1]), repl |-> Entities[k][2]]
         ELSE NoMatch
    [] kind = "br" ->        \* <br\s*/?>
         IF i + 2 <= Len(s) /\ lower[Slice[s, i, i + 2]] = "<br"
         THEN BrMatch[s, i, SkipSpace[s, i + 3]]
         ELSE NoMatch
    [] kind = "p" ->         \* <p[^>]*>
         IF i + 1 <= Len(s) /\ lower[Slice[s, i, i + 1]] = "<p"
         THEN TagMatch[s, i, i + 2, "\n"]
         ELSE NoMatch
    [] kind = "endp" ->      \* </p>
         IF i + 3 <= Len(s) /\ lower[Slice[s, i, i + 3]] = "</p>"
         THEN [len |-> 4, repl |-> "\n"]
         ELSE NoMatch
    [] kind = "li" ->        \* <li[^>]*>
         IF i + 2 <= Len(s) /\ lower[Slice[s, i, i + 2]] = "<li"
         THEN TagMatch[s, i, i + 3, "\n- "]
         ELSE NoMatch
    [] kind = "tag" ->       \* <[^>]+>
         IF StartsAt[s, i, "<"] /\ ~StartsAt[s, i + 1, ">"]
         THEN TagMatch[s, i, i + 2, ""]
         ELSE NoMatch
    [] kind = "newlines" ->  \* \n{3,}
         IF RunLen[s, i, "\n"] >= 3 THEN [len |-> RunLen[s, i, "\n"], repl |-> "\n\n"]
         ELSE NoMatch
    [] kind = "spaces" ->    \* ' +'
         IF RunLen[s, i, " "] >= 1 THEN [len |-> RunLen[s, i, " "], repl |-> " "]
         ELSE NoMatch

\* The start of the leftmost match at or after i, 0 if there is none
NextMatch[kind \in CleanKinds, s \in STRING, i \in Int] ==
  IF \E p \in i..Len(s) : CleanMatch[kind, s, p].len > 0
  THEN Min[{p \in i..Len(s) : CleanMatch[kind, s, p].len > 0}]
  ELSE 0

\* re.sub(pattern, repl, s) from position i on, the leftmost match being at
\* p: leftmost non-overlapping matches, left to right
ReSub[kind \in CleanKinds, s \in STRING, i \in Int, p \in Int] ==
  IF p = 0 THEN Slice[s, i, Len(s)]
  ELSE Slice[s, i, p - 1] \o CleanMatch[kind, s, p].repl
         \o ReSub[kind, s, p + CleanMatch[kind, s, p].len,
                  NextMatch[kind, s, p + CleanMatch[kind, s, p].len]]

Sub[kind \in CleanKinds, s \in STRING] == ReSub[kind, s, 1, NextMatch[kind, s, 1]]

clean_html[text \in STRING] ==
  strip[Sub["spaces", Sub["newlines", Sub["tag", Sub["li", Sub["endp",
        Sub["p", Sub["br", Sub["entity", text]]]]]]]]]

(***************************************************************************)
(* Regional Warning Extractor                                              *)
(***************************************************************************)

\* @dataclass RegionalWarning
RegionalWarning == [region_name : STRING, level : Nat, reasons : STRING]

\* The literal words of a pattern's head, joined by \s+ in the pattern; the
\* first letter of the first word is a two-case class ([Dd], [Rr]).
HeadWords(level) ==
  IF level = 4 THEN <<"do", "not", "travel", "to">>
  ELSE <<"reconsider", "travel", "to">>

\* The k-th word of the head matched at position i
WordAt[s \in STRING, i \in Int, w \in STRING, k \in Int] ==
  /\ i >= 1
  /\ i + Len(w) - 1 <= Len(s)
  /\ IF k = 1
     THEN /\ LowerChar(Char(s, i)) = Char(w, 1)
          /\ Slice[s, i + 1, i + Len(w) - 1] = Slice[w, 2, Len(w)]
     ELSE Slice[s, i, i + Len(w) - 1] = w

\* The head matched at position i from its k-th word on: the position after
\* its last word, or 0.
MatchHead[s \in STRING, i \in Int, words \in Seq(STRING), k \in Int] ==
  IF ~WordAt[s, i, words[k], k] THEN 0
  ELSE IF k = Len(words) THEN i + Len(words[k])
  ELSE IF SkipSpace[s, i + Len(words[k])] = i + Len(words[k]) THEN 0
  ELSE MatchHead[s, SkipSpace[s, i + Len(words[k])], words, k + 1]

\* length of the run of [:\s] characters that starts at i
SepRun[s \in STRING, i \in Int] ==
  Min[{p \in i..(Len(s) + 1) :
         p = Len(s) + 1 \/ ~(IsSpace(Char(s, p)) \/ Char(s, p) = ":")}] - i

\* The first and last position of a group of a match
Span == [first : Int, last : Int]

NoSpan == [first |-> 0, last |-> 0]

\* ([^.]+) after the final \s+ of the tail, which spans from..(p3 - 1): the
\* span of the group.  The greedy \s+ gives back its last character when
\* nothing but a full stop or the end of the text follows it.
ReasonsSpan[s \in STRING, from \in Int, p3 \in Int] ==
  IF p3 = from THEN NoSpan
  ELSE IF p3 <= Len(s) /\ Char(s, p3) # "."
  THEN [first |-> p3,
        last  |-> IF FindChar[s, p3, "."] = 0 THEN Len(s) ELSE FindChar[s, p3, "."] - 1]
  ELSE IF p3 - from >= 2 THEN [first |-> p3 - 1, last |-> p3 - 1]
  ELSE NoSpan

\* A literal word at p, p > from (at least one space before it), followed
\* by at least one space: the position after the word, or 0
SpacedWord[s \in STRING, from \in Int, p \in Int, w \in STRING] ==
  IF p > from /\ StartsAt[s, p, w] THEN p + Len(w) ELSE 0

\* to\s+([^.]+) with "to" at position p2 or 0
ToTail[s \in STRING, p2 \in Int] ==
  IF p2 = 0 THEN NoSpan ELSE ReasonsSpan[s, p2, SkipSpace[s, p2]]

\* due\s+to\s+([^.]+) with the position after "due" in p, or 0
DueRest[s \in STRING, p \in Int] ==
  IF p = 0 THEN NoSpan
  ELSE ToTail[s, SpacedWord[s, p, SkipSpace[s, p], "to"]]

\* The tail  \s+due\s+to\s+([^.]+)  matched at position i: the span of the
\* reasons group (first = 0: no match).
DueTail[s \in STRING, i \in Int] ==
  DueRest[s, SpacedWord[s, i, SkipSpace[s, i], "due"]]

\* The (separator length, region end) pairs the pattern can match with after
\* a head that ends before h: [:\s]+ takes the separator, (.+?) a
\* newline-free region, the tail follows.
Candidates[s \in STRING, h \in Int] ==
  {c \in (1..SepRun[s, h]) \X (h..Len(s)) :
     /\ c[2] >= h + c[1]
     /\ \A j \in (h + c[1])..c[2] : Char(s, j) # "\n"
     /\ DueTail[s, c[2] + 1].first # 0}

\* The candidate the backtracking search finds first: [:\s]+ is greedy
\* (longest separator first), (.+?) lazy (shortest region first).
FirstCandidate[cands \in SUBSET (Int \X Int)] ==
  CHOOSE c \in cands : \A d \in cands :
    \/ c[1] > d[1]
    \/ c[1] = d[1] /\ c[2] <= d[2]

\* A match of the pattern: its two groups, stripped, and its last position
Match == [ok : BOOLEAN, region : STRING, reasons : STRING, last : Int]

NoHit == [ok |-> FALSE, region |-> "", reasons |-> "", last |-> 0]

\* The match for candidate c after a head that ends before h
Hit[s \in STRING, h \in Int, c \in Int \X Int, t \in Span] ==
  [ok      |-> TRUE,
   region  |-> strip[Slice[s, h + c[1], c[2]]],
   reasons |-> strip[Slice[s, t.first, t.last]],
   last    |-> t.last]

HitOf[s \in STRING, h \in Int, c \in Int \X Int] == Hit[s, h, c, DueTail[s, c[2] + 1]]

\* The pattern matched after a head that ends before h (0: no head)
MatchFrom[s \in STRING, h \in Int] ==
  IF h = 0 THEN NoHit
  ELSE IF SepRun[s, h] = 0 THEN NoHit
  ELSE IF Candidates[s, h] = {} THEN NoHit
  ELSE HitOf[s, h, FirstCandidate[Candidates[s, h]]]

\* The pattern of a level matched at start position i
MatchAt[s \in STRING, i \in Int, level \in Nat] ==
  MatchFrom[s, MatchHead[s, i, HeadWords(level), 1]]

\* The start of the leftmost match at or after i, 0 if there is none
NextHit[s \in STRING, i \in Int, level \in Nat] ==
  IF \E p \in i..Len(s) : MatchAt[s, p, level].ok
  THEN Min[{p \in i..Len(s) : MatchAt[s, p, level].ok}]
  ELSE 0

\* The matches from the one at p on (p = 0: none)
HitsFrom[s \in STRING, p \in Int, m \in Match, level \in Nat] ==
  IF p = 0 THEN <<>>
  ELSE <<m>> \o HitsFrom[s, NextHit[s, m.last + 1, level],
                         MatchAt[s, NextHit[s, m.last + 1, level], level], level]

\* re.finditer(pattern, clean_text)
FindIter[s \in STRING, level \in Nat] ==
  HitsFrom[s, NextHit[s, 1, level], MatchAt[s, NextHit[s, 1, level], level], level]

skip_phrases == <<"country", "nation", "all of", "anywhere", "entire">>
vague_terms == <<"these areas", "this area", "the area", "certain areas">>

\* re.sub(r'^(the|a|an)\s+', '', region, flags=re.IGNORECASE)
StripArticle[region \in STRING] ==
  IF \E a \in {"the", "a", "an"} :
       StartsAt[lower[region], 1, a] /\ SkipSpace[region, Len(a) + 1] > Len(a) + 1
  THEN LET a == CHOOSE a \in {"the", "a", "an"} :
                  StartsAt[lower[region], 1, a] /\ SkipSpace[region, Len(a) + 1] > Len(a) + 1
       IN  Slice[region, SkipSpace[region, Len(a) + 1], Len(region)]
  ELSE region

\* re.sub(r'^[-:*]\s*', '', region)
StripPunct[region \in STRING] ==
  IF Len(region) >= 1 /\ Char(region, 1) \in {"-", ":", "*"}
  THEN Slice[region, SkipSpace[region, 2], Len(region)]
  ELSE region

\* The cleaned region name of a candidate
CleanRegion[region \in STRING] == strip[StripPunct[StripArticle[region]]]

MinRegionLen == 3
MaxRegionLen == 200

\* The tests of the loop body that make it skip a match: region is the
\* matched text, cleaned the region name after the clean-up
Rejected[region \in STRING, cleaned \in STRING, warnings \in Seq(RegionalWarning)] ==
  \/ \E n \in 1..Len(skip_phrases) : Contains[lower[region], skip_phrases[n]]
  \/ \E n \in 1..Len(vague_terms) : Contains[lower[cleaned], vague_terms[n]]
  \/ Len(cleaned) < MinRegionLen
  \/ Len(cleaned) > MaxRegionLen
  \/ \E n \in 1..Len(warnings) : Contains[lower[warnings[n].region_name], lower[cleaned]]

\* One iteration of a pass's loop: the warnings list after it
ExtractStep[m \in Match, cleaned \in STRING, level \in Nat, warnings \in Seq(RegionalWarning)] ==
  IF Rejected[m.region, cleaned, warnings] THEN warnings
  ELSE Append(warnings, [region_name |-> cleaned, level |-> level, reasons |-> m.reasons])

\* The loop of one pass over its matches, from the k-th match on
ExtractPass[matches \in Seq(Match), k \in Nat, level \in Nat, warnings \in Seq(RegionalWarning)] ==
  IF k > Len(matches) THEN warnings
  ELSE ExtractPass[matches, k + 1, level,
                   ExtractStep[matches[k], CleanRegion[matches[k].region], level, warnings]]

\* Both passes running also at their own level (<= for < in lines 220 and 256)
PassRuns_Inclusive(level, overall_level) == overall_level <= level

\* The guard of a pass: if overall_level < 4 (line 220), if overall_level < 3
\* (line 256)
PassRuns(level, overall_level) == overall_level < level

\* The two passes over the cleaned text, the level-4 pass first
ExtractFrom[clean_text \in STRING, overall_level \in Nat] ==
  ExtractPass[IF PassRuns(3, overall_level) THEN FindIter[clean_text, 3] ELSE <<>>, 1, 3,
              ExtractPass[IF PassRuns(4, overall_level) THEN FindIter[clean_text, 4] ELSE <<>>,
                          1, 4, <<>>]]

extract_regional_warnings[summary \in STRING, overall_level \in Nat] ==
  ExtractFrom[clean_html[summary], overall_level]

(***************************************************************************)
(* Timestamps                                                              *)
(***************************************************************************)

\* The text of a raw 'Updated' or 'Published' field: the instant it writes
\* and its form, "zulu" (ISO-8601 ending in Z), "offset" (ending in +00:00),
\* "local" (ISO-8601 without a zone), "garbled" (not ISO-8601) or "absent"
\* (the record has no such field).
TimeText == [form : {"zulu", "offset", "local", "garbled", "absent"}, t : Nat]

\* A datetime: its instant, and whether it carries a zone (aware) or not
\* (naive)
DateTime == [t : Nat, aware : BOOLEAN]

\* datetime.fromisoformat(updated_str.replace('Z', '+00:00')), with the
\* except branch: datetime.now()
parse_timestamp(updated, now) ==
  CASE updated.form \in {"zulu", "offset"} -> [t |-> updated.t, aware |-> TRUE]
    [] updated.form = "local"               -> [t |-> updated.t, aware |-> FALSE]
    [] OTHER                                -> [t |-> now, aware |-> FALSE]

\* a > b on datetimes raises TypeError when exactly one of them is aware
CompareRaises(a, b) == a.aware # b.aware

\* str(n): the decimal digits of n
Digits[n \in Nat] ==
  IF n < 10 THEN CharOf[48 + n] ELSE Digits[n \div 10] \o CharOf[48 + (n % 10)]

\* datetime.isoformat(): the instant, and the offset of an aware one
isoformat(d) == Digits[d.t] \o (IF d.aware THEN "+00:00" ELSE "")

\* Instants per calendar day
TicksPerDay == 2

\* f"{d:%Y-%m-%d}": the calendar day of the instant
format_day(d) == d.t \div TicksPerDay

(***************************************************************************)
(* Record Parser                                                           *)
(***************************************************************************)

\* A raw record of the API response
RawRecord ==
  [Title : STRING, Category : Seq(STRING), Summary : STRING, Link : STRING,
   Updated : TimeText, Published : TimeText]

TravelAdvisory ==
  [country_name : STRING, country_code : STRING, overall_level : Nat,
   summary : STRING, last_updated : DateTime, link : STRING,
   regional_warnings : Seq(RegionalWarning)]

\* raw.get('Updated', raw.get('Published', ''))
updated_str(raw) == IF raw.Updated.form # "absent" THEN raw.Updated ELSE raw.Published

\* What parse_level_from_title returns
TitleParse == [name : STRING, level : Nat]

\* The test of lines 305-312 without the exception of line 309 for
\* prohibited names: every level 0 record is discarded
DiscardsLevel0_All(parsed) == parsed.level = 0

\* The test of lines 305-312 that parse_advisory returns None
DiscardsLevel0(parsed) == parsed.level = 0 /\ ~is_prohibited_country[parsed.name]

\* parse_advisory from line 305 on, parsed being the (name, level) of the
\* title: the sequence of the one TravelAdvisory built, empty for None
AdvisoryOf[raw \in RawRecord, parsed \in TitleParse, now \in Nat] ==
  IF DiscardsLevel0(parsed)
  THEN <<>>
  ELSE << [country_name      |-> parsed.name,
           country_code      |-> IF raw.Category # <<>> THEN raw.Category[1] ELSE "",
           overall_level     |-> parsed.level,
           summary           |-> clean_html[raw.Summary],
           last_updated      |-> parse_timestamp(updated_str(raw), now),
           link              |-> raw.Link,
           regional_warnings |-> extract_regional_warnings[raw.Summary, parsed.level]] >>

\* parse_advisory(raw) with datetime.now() = now
parse_advisory[raw \in RawRecord, now \in Nat] ==
  AdvisoryOf[raw, parse_level_from_title[raw.Title], now]

\* TravelAdvisory.has_regional_elevation
has_regional_elevation(a) ==
  \E n \in 1..Len(a.regional_warnings) : a.regional_warnings[n].level > a.overall_level

\* TravelAdvisory.max_regional_level
max_regional_level(a) ==
  IF a.regional_warnings = <<>> THEN a.overall_level
  ELSE Max[{a.regional_warnings[n].level : n \in 1..Len(a.regional_warnings)}]

(***************************************************************************)
(* Deduplicator                                                            *)
(***************************************************************************)

\* The key of line 376 with the level appended to a country code: records of
\* one code at different levels count as different advisories
dedup_key_WithLevel(adv) ==
  IF adv.country_code # "" THEN upper[adv.country_code] \o "|" \o Digits[adv.overall_level]
  ELSE strip[lower[adv.country_name]]

\* The identity key of line 376
dedup_key(adv) ==
  IF adv.country_code # "" THEN upper[adv.country_code]
  ELSE strip[lower[adv.country_name]]

\* An entry of the duplicates list: the values its f-string interpolates
DuplicateDescription ==
  [dropped_name : STRING, dropped_code : STRING, dropped_updated : Nat,
   kept_name : STRING, kept_updated : Nat]

Dropped(loser, winner) ==
  [dropped_name    |-> loser.country_name,
   dropped_code    |-> loser.country_code,
   dropped_updated |-> format_day(loser.last_updated),
   kept_name       |-> winner.country_name,
   kept_updated    |-> format_day(winner.last_updated)]

\* Line 380 with the comparison turned round: the earlier record is kept
Replaces_Earlier(adv, existing) == adv.last_updated.t < existing.last_updated.t

\* Line 380 with >= for >: at equal timestamps the incoming record is kept
Replaces_AtEquality(adv, existing) == adv.last_updated.t >= existing.last_updated.t

\* The test of line 380 that the incoming record replaces the existing one
Replaces(adv, existing) == adv.last_updated.t > existing.last_updated.t

\* The locals of deduplicate_advisories: seen is the dict as its items in
\* insertion order; raised: a TypeError left the loop
DedupState ==
  [seen : Seq([key : STRING, adv : TravelAdvisory]),
   duplicates : Seq(DuplicateDescription), raised : BOOLEAN]

\* Line 386 as a removal of the key followed by an insertion: the item moves
\* to the end of the dict
Replace_Reinserted(seen, n, adv) ==
  Append([m \in 1..(Len(seen) - 1) |-> IF m < n THEN seen[m] ELSE seen[m + 1]],
         [key |-> seen[n].key, adv |-> adv])

\* seen[key] = adv for a key already in seen, at item n (line 386): the value
\* changes and the item keeps its place
Replace(seen, n, adv) == [seen EXCEPT ![n].adv = adv]

\* Lines 378-392: key is in seen, at item n
DedupRepeat[st \in DedupState, adv \in TravelAdvisory, n \in Nat] ==
  IF CompareRaises(adv.last_updated, st.seen[n].adv.last_updated)
  THEN [st EXCEPT !.raised = TRUE]
  ELSE IF Replaces(adv, st.seen[n].adv)
  THEN [st EXCEPT !.seen = Replace(st.seen, n, adv),
                  !.duplicates = Append(@, Dropped(st.seen[n].adv, adv))]
  ELSE [st EXCEPT !.duplicates = Append(@, Dropped(adv, st.seen[n].adv))]

\* The items of seen with the key
SeenAt[st \in DedupState, key \in STRING] ==
  {n \in 1..Len(st.seen) : st.seen[n].key = key}

\* One iteration of the loop, key being the identity key of adv
DedupKeyed[st \in DedupState, adv \in TravelAdvisory, key \in STRING] ==
  IF st.raised THEN st
  ELSE IF SeenAt[st, key] = {}
  THEN [st EXCEPT !.seen = Append(@, [key |-> key, adv |-> adv])]
  ELSE DedupRepeat[st, adv, Min[SeenAt[st, key]]]

DedupStep[st \in DedupState, adv \in TravelAdvisory] == DedupKeyed[st, adv, dedup_key(adv)]

DedupLoop[st \in DedupState, advisories \in Seq(TravelAdvisory), k \in Nat] ==
  IF k > Len(advisories) THEN st
  ELSE DedupLoop[DedupStep[st, advisories[k]], advisories, k + 1]

DedupResult[st \in DedupState] ==
  [raised     |-> st.raised,
   advisories |-> [n \in 1..Len(st.seen) |-> st.seen[n].adv],
   duplicates |-> st.duplicates]

\* deduplicate_advisories(advisories): whether it raised, and the pair it
\* returns
deduplicate_advisories[advisories \in Seq(TravelAdvisory)] ==
  DedupResult[DedupLoop[[seen |-> <<>>, duplicates |-> <<>>, raised |-> FALSE],
                        advisories, 1]]

(***************************************************************************)
(* Risk Classifier                                                         *)
(***************************************************************************)

\* The sort keys with the maximum regional level left out of the key of
\* line 438
KeyLess_NoRegional(kind, a, b) ==
  CASE kind = "name" -> StrLess[a.country_name, b.country_name]
    [] kind = "risk" ->
         \/ a.overall_level > b.overall_level
         \/ /\ a.overall_level = b.overall_level
            /\ StrLess[a.country_name, b.country_name]
    [] kind = "hash" ->
         StrLess[IF a.country_code # "" THEN a.country_code ELSE a.country_name,
                 IF b.country_code # "" THEN b.country_code ELSE b.country_name]

\* key(a) < key(b) for the sort keys of filter_high_risk ("name", "risk")
\* and of compute_data_hash ("hash")
KeyLess(kind, a, b) ==
  CASE kind = "name" -> StrLess[a.country_name, b.country_name]
    [] kind = "risk" ->
         \/ a.overall_level > b.overall_level
         \/ /\ a.overall_level = b.overall_level
            /\ \/ max_regional_level(a) > max_regional_level(b)
               \/ /\ max_regional_level(a) = max_regional_level(b)
                  /\ StrLess[a.country_name, b.country_name]
    [] kind = "hash" ->
         StrLess[IF a.country_code # "" THEN a.country_code ELSE a.country_name,
                 IF b.country_code # "" THEN b.country_code ELSE b.country_name]

InsertAt[x \in TravelAdvisory, front \in Seq(TravelAdvisory), at \in Nat] ==
  SubSeq(front, 1, at - 1) \o <<x>> \o SubSeq(front, at, Len(front))

\* x put after the elements of the sorted front that are not greater
Insert[kind \in STRING, x \in TravelAdvisory, front \in Seq(TravelAdvisory)] ==
  InsertAt[x, front,
           Min[{k \in 1..Len(front) : KeyLess(kind, x, front[k])} \cup {Len(front) + 1}]]

\* list.sort / sorted: stable, ascending by key
SortBy[kind \in STRING, seq \in Seq(TravelAdvisory)] ==
  IF seq = <<>> THEN <<>>
  ELSE Insert[kind, seq[Len(seq)], SortBy[kind, SubSeq(seq, 1, Len(seq) - 1)]]

\* The loop body with the level test of line 426 put before the prohibited
\* test of line 421
RouteOf_LevelFirst(a) ==
  IF a.overall_level >= 3 THEN "high_risk"
  ELSE IF is_prohibited_country[a.country_name] THEN "prohibited"
  ELSE IF has_regional_elevation(a) /\ max_regional_level(a) >= 3 THEN "high_risk"
  ELSE "none"

\* The loop body without the regional test of line 431
RouteOf_OverallOnly(a) ==
  IF is_prohibited_country[a.country_name] THEN "prohibited"
  ELSE IF a.overall_level >= 3 THEN "high_risk"
  ELSE "none"

\* The body of the loop of filter_high_risk: the list advisory a is
\* appended to, "none" when it is appended to neither
RouteOf(a) ==
  IF is_prohibited_country[a.country_name] THEN "prohibited"
  ELSE IF a.overall_level >= 3 THEN "high_risk"
  ELSE IF has_regional_elevation(a) /\ max_regional_level(a) >= 3 THEN "high_risk"
  ELSE "none"

\* The advisories of seq, from the k-th on, that the loop appends to dest
Route[seq \in Seq(TravelAdvisory), k \in Nat, dest \in STRING] ==
  IF k > Len(seq) THEN <<>>
  ELSE (IF RouteOf(seq[k]) = dest THEN <<seq[k]>> ELSE <<>>) \o Route[seq, k + 1, dest]

\* filter_high_risk without the continue of line 423: a prohibited advisory
\* goes on to the level tests
filter_high_risk_NoContinue(advisories) ==
  [prohibited |-> SortBy["name", Route[advisories, 1, "prohibited"]],
   high_risk  |-> SortBy["risk", SelectSeq(advisories,
                    LAMBDA a : \/ a.overall_level >= 3
                               \/ has_regional_elevation(a) /\ max_regional_level(a) >= 3)]]

\* filter_high_risk(advisories): the pair it returns
filter_high_risk(advisories) ==
  [prohibited |-> SortBy["name", Route[advisories, 1, "prohibited"]],
   high_risk  |-> SortBy["risk", Route[advisories, 1, "high_risk"]]]

(***************************************************************************)
(* Verification Engine                                                     *)
(***************************************************************************)

\* VerificationReport.__init__
NewVerificationReport ==
  [raw_count              |-> 0,
   parsed_count           |-> 0,
   parse_failures         |-> 0,
   failed_titles          |-> <<>>,
   duplicates_removed     |-> 0,
   duplicate_descriptions |-> <<>>,
   after_dedup_count      |-> 0,
   prohibited_matched     |-> <<>>,
   prohibited_unmatched   |-> <<>>,
   level_4_countries      |-> <<>>,
   level_3_countries      |-> <<>>,
   regional_countries     |-> <<>>,
   high_risk_names        |-> <<>>,
   data_hash              |-> "",
   assertion_errors       |-> <<>>]

\* The text fed to the hasher for one advisory
HashRecord(adv) ==
  adv.country_code \o "|" \o adv.country_name \o "|" \o Digits[adv.overall_level]
    \o "|" \o isoformat(adv.last_updated)

HashInput[seq \in Seq(TravelAdvisory), k \in Nat] ==
  IF k > Len(seq) THEN "" ELSE HashRecord(seq[k]) \o HashInput[seq, k + 1]

\* compute_data_hash(advisories): SHA-256 is taken as injective, the
\* fingerprint is the text it digests
compute_data_hash[advisories \in Seq(TravelAdvisory)] ==
  HashInput[SortBy["hash", advisories], 1]

\* The advisories the generator of line 870 yields for name
AuditHits[prohibited_advisories \in Seq(TravelAdvisory), name \in STRING] ==
  {n \in 1..Len(prohibited_advisories) :
     Contains[lower[prohibited_advisories[n].country_name], lower[name]]}

AuditState == [matched : Seq(STRING \X STRING), unmatched : Seq(STRING)]

\* populate_prohibited_audit: the items of prohibited_matched in insertion
\* order and prohibited_unmatched, for the names of PROHIBITED_COUNTRIES
\* from the k-th on
ProhibitedAudit[prohibited_advisories \in Seq(TravelAdvisory), k \in Nat, acc \in AuditState] ==
  IF k > Len(PROHIBITED_COUNTRIES) THEN acc
  ELSE ProhibitedAudit[prohibited_advisories, k + 1,
         IF AuditHits[prohibited_advisories, PROHIBITED_COUNTRIES[k]] = {}
         THEN [acc EXCEPT !.unmatched = Append(@, PROHIBITED_COUNTRIES[k])]
         ELSE [acc EXCEPT !.matched = Append(@,
                 <<PROHIBITED_COUNTRIES[k],
                   prohibited_advisories[
                     Min[AuditHits[prohibited_advisories, PROHIBITED_COUNTRIES[k]]]
                   ].country_name>>)]]

\* populate_high_risk_breakdown: whether an advisory of overall level l
\* goes to the list named by bucket
InBucket(bucket, l) ==
  \/ bucket = "all"
  \/ bucket = "4" /\ l = 4
  \/ bucket = "3" /\ l = 3
  \/ bucket = "regional" /\ l # 4 /\ l # 3

\* The country names the loop appends to the list named by bucket
NamesAt[seq \in Seq(TravelAdvisory), k \in Nat, bucket \in STRING] ==
  IF k > Len(seq) THEN <<>>
  ELSE (IF InBucket(bucket, seq[k].overall_level) THEN <<seq[k].country_name>> ELSE <<>>)
         \o NamesAt[seq, k + 1, bucket]

\* Assertion 1 of run_assertions: one error per leaked advisory
LeakErrors[high_risk_list \in Seq(TravelAdvisory), k \in Nat] ==
  IF k > Len(high_risk_list) THEN <<>>
  ELSE (IF is_prohibited_country[high_risk_list[k].country_name]
        THEN << [kind |-> "LEAK", detail |-> high_risk_list[k].country_name] >>
        ELSE <<>>) \o LeakErrors[high_risk_list, k + 1]

\* Assertion 2 with > for the >= of line 904
ParseFailureErrors_Strict(parse_failures, raw_count) ==
  IF raw_count > 0 /\ 100 * parse_failures > 5 * raw_count
  THEN << [kind |-> "PARSE FAILURES", detail |-> Digits[parse_failures]] >>
  ELSE <<>>

\* Assertion 2: failure_rate >= 0.05, skipped when raw_count is 0
ParseFailureErrors(parse_failures, raw_count) ==
  IF raw_count > 0 /\ 100 * parse_failures >= 5 * raw_count
  THEN << [kind |-> "PARSE FAILURES", detail |-> Digits[parse_failures]] >>
  ELSE <<>>

\* Assertion 3
SanityErrors(high_risk_list) ==
  IF Len(high_risk_list) = 0 THEN << [kind |-> "SANITY", detail |-> ""] >> ELSE <<>>

\* Assertion 4: one error per non-empty code already seen
DuplicateErrors[advs \in Seq(TravelAdvisory), k \in Nat] ==
  IF k > Len(advs) THEN <<>>
  ELSE (IF /\ advs[k].country_code # ""
           /\ \E j \in 1..(k - 1) : advs[j].country_code = advs[k].country_code
        THEN << [kind |-> "DUPLICATE", detail |-> advs[k].country_code] >>
        ELSE <<>>) \o DuplicateErrors[advs, k + 1]

\* run_assertions returning at the first assertion that fails
run_assertions_ShortCircuit(v, prohibited_list, high_risk_list) ==
  IF LeakErrors[high_risk_list, 1] # <<>> THEN LeakErrors[high_risk_list, 1]
  ELSE IF ParseFailureErrors(v.parse_failures, v.raw_count) # <<>>
  THEN ParseFailureErrors(v.parse_failures, v.raw_count)
  ELSE IF SanityErrors(high_risk_list) # <<>> THEN SanityErrors(high_risk_list)
  ELSE DuplicateErrors[prohibited_list \o high_risk_list, 1]

\* run_assertions: the assertion_errors list it leaves; it returns True
\* when the list is empty
run_assertions(v, prohibited_list, high_risk_list) ==
  LeakErrors[high_risk_list, 1]
    \o ParseFailureErrors(v.parse_failures, v.raw_count)
    \o SanityErrors(high_risk_list)
    \o DuplicateErrors[prohibited_list \o high_risk_list, 1]

(***************************************************************************)
(* The raw records the fetch collaborator may return                       *)
(***************************************************************************)

\* Longest list fetch_advisories() returns
MaxRaw == 3
\* Latest instant the wall clock reaches
MaxClock == 2

Time(form, t) == [form |-> form, t |-> t]

Raw(title, category, summary, updated, published) ==
  [Title |-> title, Category |-> category, Summary |-> summary,
   Link |-> "", Updated |-> updated, Published |-> published]

RawPool ==
  { Raw("Cuba - Level 4: Do Not Travel", <<"CU">>, "",
        Time("zulu", 1), Time("absent", 0)),
    Raw("Mali - Level 4: Do Not Travel", <<"ML">>, "",
        Time("zulu", 1), Time("absent", 0)),
    Raw("Mali - Level 2: Exercise Increased Caution", <<"ml">>,
        "<p>Do not travel to the Kidal region due to terrorism.</p>",
        Time("offset", 1), Time("absent", 0)),
    Raw("Mali - Level 3: Reconsider Travel", <<"ML">>, "",
        Time("zulu", 2), Time("absent", 0)),
    Raw("Mali - Level 1: Exercise Normal Precautions", <<"ML">>, "",
        Time("garbled", 0), Time("absent", 0)),
    Raw("Chad - Level 4: Do Not Travel", <<"TD">>, "",
        Time("zulu", 2), Time("absent", 0)),
    Raw("Togo - Level 1: Exercise Normal Precautions", <<>>,
        "Reconsider travel to the area due to crime.",
        Time("local", 1), Time("absent", 0)),
    Raw("Oman - Level 1: Exercise Normal Precautions", <<"OM">>, "",
        Time("zulu", 1), Time("absent", 0)),
    Raw("Peru - Level 7: Unknown", <<"PE">>, "",
        Time("zulu", 1), Time("absent", 0)),
    Raw("Worldwide Caution", <<>>, "",
        Time("zulu", 1), Time("absent", 0)),
    Raw("Iran - Level 0: Unranked", <<"IR">>, "",
        Time("zulu", 1), Time("absent", 0)),
    Raw("Mainland China, Hong Kong & Macau - See Summaries", <<"CN">>, "",
        Time("absent", 0), Time("zulu", 2)) }

RawLists == UNION {[1..n -> RawPool] : n \in 0..MaxRaw}

(***************************************************************************)
(* The advisories the functions of the pipeline are called with            *)
(***************************************************************************)

\* Longest list deduplicate_advisories and filter_high_risk are called with
MaxAdv == 3

Warn(region_name, level) == [region_name |-> region_name, level |-> level, reasons |-> ""]

Adv(country_name, country_code, overall_level, last_updated, regional_warnings) ==
  [country_name |-> country_name, country_code |-> country_code,
   overall_level |-> overall_level, summary |-> "", last_updated |-> last_updated,
   link |-> "", regional_warnings |-> regional_warnings]

AdvPool ==
  { Adv("Cuba", "CU", 4, [t |-> 1, aware |-> TRUE], <<>>),
    Adv("Cuba", "CU", 2, [t |-> 2, aware |-> TRUE], <<>>),
    Adv("Mainland China, Hong Kong & Macau", "CN", 0, [t |-> 2, aware |-> TRUE], <<>>),
    Adv("Mali", "ML", 4, [t |-> 1, aware |-> TRUE], <<>>),
    Adv("Mali", "ml", 3, [t |-> 1, aware |-> TRUE], <<>>),
    Adv("Mali", "ML", 2, [t |-> 3, aware |-> TRUE], <<Warn("Kidal region", 4)>>),
    Adv("Chad", "TD", 4, [t |-> 2, aware |-> TRUE], <<>>),
    Adv("Benin", "BJ", 2, [t |-> 1, aware |-> TRUE],
        <<Warn("Alibori department", 3), Warn("Atacora department", 3)>>),
    Adv("Togo", "", 1, [t |-> 1, aware |-> FALSE], <<>>),
    Adv("TOGO", "", 3, [t |-> 2, aware |-> TRUE], <<>>),
    Adv("Oman", "OM", 1, [t |-> 1, aware |-> TRUE], <<>>) }

AdvLists == UNION {[1..n -> AdvPool] : n \in 0..MaxAdv}

(***************************************************************************)
(* main()                                                                  *)
(***************************************************************************)

VARIABLES
  pc,                \* the position of main(), or of the caller of a function
  list_only,         \* args.list_only
  clock,             \* the wall clock datetime.now() reads
  raw_data,          \* the list fetch_advisories() returned
  parsed,            \* advisories as the parse loop builds it (lines 1033-1040)
  advisories,        \* advisories from line 1046 on
  dup_descriptions,
  prohibited,
  high_risk,
  verification,      \* the VerificationReport
  assertions_passed,
  artifacts,         \* the files written so far, in order: "pdf", "log"
  exit_code,         \* the value main() returned, -1 before it returns
  extraction         \* a call of extract_regional_warnings on its own: its
                     \* arguments and the warnings list it returned

vars == <<pc, list_only, clock, raw_data, parsed, advisories, dup_descriptions, prohibited,
          high_risk, verification, assertions_passed, artifacts, exit_code, extraction>>

\* No call of extract_regional_warnings on its own
NoExtraction == [summary |-> "", overall_level |-> 0, warnings |-> <<>>]

Init ==
  /\ pc = "fetch"
  /\ list_only \in BOOLEAN
  /\ clock = 1
  /\ raw_data = <<>>
  /\ parsed = <<>>
  /\ advisories = <<>>
  /\ dup_descriptions = <<>>
  /\ prohibited = <<>>
  /\ high_risk = <<>>
  /\ verification = NewVerificationReport
  /\ assertions_passed = FALSE
  /\ artifacts = <<>>
  /\ exit_code = -1
  /\ extraction = NoExtraction

\* The except branch of line 1023 writing the verification log before it
\* returns
FetchFails_WritesLog ==
  /\ pc = "fetch"
  /\ pc' = "returned"
  /\ exit_code' = 1
  /\ artifacts' = Append(artifacts, "log")
  /\ UNCHANGED <<extraction, list_only, clock, raw_data, parsed, advisories, dup_descriptions,
                 prohibited, high_risk, verification, assertions_passed>>

\* lines 1021-1026: fetch_advisories() raises ConnectionError
FetchFails ==
  /\ pc = "fetch"
  /\ pc' = "returned"
  /\ exit_code' = 1
  /\ UNCHANGED <<extraction, list_only, clock, raw_data, parsed, advisories, dup_descriptions,
                 prohibited, high_risk, verification, assertions_passed, artifacts>>

\* lines 1021-1029: fetch_advisories() returns a list
FetchReturns ==
  /\ pc = "fetch"
  /\ \E data \in RawLists :
       /\ raw_data' = data
       /\ verification' = [verification EXCEPT !.raw_count = Len(data)]
  /\ pc' = "parse"
  /\ UNCHANGED <<extraction, list_only, clock, parsed, advisories, dup_descriptions, prohibited,
                 high_risk, assertions_passed, artifacts, exit_code>>

\* The records of raw_data the parse loop has consumed
Consumed == Len(parsed) + verification.parse_failures

\* The instants datetime.now() may return while raw is parsed: it is read
\* only in the except branch of line 328
NowChoices(raw) ==
  IF updated_str(raw).form \in {"garbled", "absent"} THEN clock..MaxClock ELSE {clock}

\* lines 1034-1040: one iteration of the parse loop
ParseRecord ==
  /\ pc = "parse"
  /\ Consumed < Len(raw_data)
  /\ \E now \in NowChoices(raw_data[Consumed + 1]) :
       \E result \in {parse_advisory[raw_data[Consumed + 1], now]} :
         /\ clock' = now
         /\ IF result # <<>>
            THEN /\ parsed' = parsed \o result
                 /\ UNCHANGED verification
            ELSE /\ verification' =
                      [verification EXCEPT
                         !.parse_failures = @ + 1,
                         !.failed_titles = Append(@, raw_data[Consumed + 1].Title)]
                 /\ UNCHANGED parsed
  /\ UNCHANGED <<extraction, pc, list_only, raw_data, advisories, dup_descriptions, prohibited,
                 high_risk, assertions_passed, artifacts, exit_code>>

\* Line 1049 reading the length of the list deduplicate_advisories was given
Deduplicate_CountsInput ==
  /\ pc = "parse"
  /\ Consumed = Len(raw_data)
  /\ \E d \in {deduplicate_advisories[parsed]} :
       IF d.raised
       THEN /\ pc' = "raised"
            /\ verification' = [verification EXCEPT !.parsed_count = Len(parsed)]
            /\ UNCHANGED <<advisories, dup_descriptions>>
       ELSE /\ pc' = "classify"
            /\ advisories' = d.advisories
            /\ dup_descriptions' = d.duplicates
            /\ verification' =
                 [verification EXCEPT !.parsed_count = Len(parsed),
                                      !.duplicates_removed = Len(d.duplicates),
                                      !.duplicate_descriptions = d.duplicates,
                                      !.after_dedup_count = Len(parsed)]
  /\ UNCHANGED <<extraction, list_only, clock, raw_data, parsed, prohibited, high_risk,
                 assertions_passed, artifacts, exit_code>>

\* lines 1042-1051: the loop is over; deduplicate.  A TypeError raised in
\* deduplicate_advisories leaves main() unhandled.
Deduplicate ==
  /\ pc = "parse"
  /\ Consumed = Len(raw_data)
  /\ \E d \in {deduplicate_advisories[parsed]} :
       IF d.raised
       THEN /\ pc' = "raised"
            /\ verification' = [verification EXCEPT !.parsed_count = Len(parsed)]
            /\ UNCHANGED <<advisories, dup_descriptions>>
       ELSE /\ pc' = "classify"
            /\ advisories' = d.advisories
            /\ dup_descriptions' = d.duplicates
            /\ verification' =
                 [verification EXCEPT !.parsed_count = Len(parsed),
                                      !.duplicates_removed = Len(d.duplicates),
                                      !.duplicate_descriptions = d.duplicates,
                                      !.after_dedup_count = Len(d.advisories)]
  /\ UNCHANGED <<extraction, list_only, clock, raw_data, parsed, prohibited, high_risk,
                 assertions_passed, artifacts, exit_code>>

\* lines 1054-1059: classify, fill in the audit, fingerprint
Classify ==
  /\ pc = "classify"
  /\ \E f \in {filter_high_risk(advisories)} :
       \E audit \in {ProhibitedAudit[f.prohibited, 1, [matched |-> <<>>, unmatched |-> <<>>]]} :
         /\ prohibited' = f.prohibited
         /\ high_risk' = f.high_risk
         /\ verification' =
              [verification EXCEPT
                 !.prohibited_matched = audit.matched,
                 !.prohibited_unmatched = audit.unmatched,
                 !.high_risk_names = NamesAt[f.high_risk, 1, "all"],
                 !.level_4_countries = NamesAt[f.high_risk, 1, "4"],
                 !.level_3_countries = NamesAt[f.high_risk, 1, "3"],
                 !.regional_countries = NamesAt[f.high_risk, 1, "regional"],
                 !.data_hash = compute_data_hash[f.prohibited \o f.high_risk]]
  /\ pc' = "verify"
  /\ UNCHANGED <<extraction, list_only, clock, raw_data, parsed, advisories, dup_descriptions,
                 assertions_passed, artifacts, exit_code>>

\* line 1075
Verify ==
  /\ pc = "verify"
  /\ \E errors \in {run_assertions(verification, prohibited, high_risk)} :
       /\ verification' = [verification EXCEPT !.assertion_errors = errors]
       /\ assertions_passed' = (Len(errors) = 0)
  /\ pc' = "branch"
  /\ UNCHANGED <<extraction, list_only, clock, raw_data, parsed, advisories, dup_descriptions,
                 prohibited, high_risk, artifacts, exit_code>>

\* lines 1077-1099: --list-only prints the lists and returns
ListOnly ==
  /\ pc = "branch"
  /\ list_only
  /\ pc' = "returned"
  /\ exit_code' = 0
  /\ UNCHANGED <<extraction, list_only, clock, raw_data, parsed, advisories, dup_descriptions,
                 prohibited, high_risk, verification, assertions_passed, artifacts>>

\* lines 1105-1111: verification failed; write the log and return
VerificationFailed ==
  /\ pc = "branch"
  /\ ~list_only
  /\ ~assertions_passed
  /\ artifacts' = Append(artifacts, "log")
  /\ pc' = "returned"
  /\ exit_code' = 2
  /\ UNCHANGED <<extraction, list_only, clock, raw_data, parsed, advisories, dup_descriptions,
                 prohibited, high_risk, verification, assertions_passed>>

\* create_report reached without the test of line 1105
Render_Unguarded ==
  /\ pc = "branch"
  /\ ~list_only
  /\ artifacts' = Append(artifacts, "pdf")
  /\ pc' = "rendered"
  /\ UNCHANGED <<extraction, list_only, clock, raw_data, parsed, advisories, dup_descriptions,
                 prohibited, high_risk, verification, assertions_passed, exit_code>>

\* lines 1113-1115: create_report
Render ==
  /\ pc = "branch"
  /\ ~list_only
  /\ assertions_passed
  /\ artifacts' = Append(artifacts, "pdf")
  /\ pc' = "rendered"
  /\ UNCHANGED <<extraction, list_only, clock, raw_data, parsed, advisories, dup_descriptions,
                 prohibited, high_risk, verification, assertions_passed, exit_code>>

\* lines 1117-1125: write the log beside the PDF and return
WriteLog ==
  /\ pc = "rendered"
  /\ artifacts' = Append(artifacts, "log")
  /\ pc' = "returned"
  /\ exit_code' = 0
  /\ UNCHANGED <<extraction, list_only, clock, raw_data, parsed, advisories, dup_descriptions,
                 prohibited, high_risk, verification, assertions_passed>>

Next ==
  \/ FetchFails
  \/ FetchReturns
  \/ ParseRecord
  \/ Deduplicate
  \/ Classify
  \/ Verify
  \/ ListOnly
  \/ VerificationFailed
  \/ Render
  \/ WriteLog

Spec == Init /\ [][Next]_vars

(***************************************************************************)
(* The pipeline of main() as a function of the fetched list                *)
(***************************************************************************)

\* lines 1033-1040: the advisories the parse loop builds from the k-th raw
\* record on, datetime.now() returning now
ParseAll[raws \in Seq(RawRecord), k \in Nat, now \in Nat] ==
  IF k > Len(raws) THEN <<>>
  ELSE parse_advisory[raws[k], now] \o ParseAll[raws, k + 1, now]

\* line 1059 for the pair filter_high_risk returned
FingerprintOfLists(f) == compute_data_hash[f.prohibited \o f.high_risk]

\* lines 1046-1059 for what deduplicate_advisories returned: the
\* fingerprint, or "TypeError" when it raised
FingerprintOfDedup(d) ==
  IF d.raised THEN "TypeError" ELSE FingerprintOfLists(filter_high_risk(d.advisories))

\* lines 1033-1059: the fingerprint main() computes for the fetched list
FingerprintOf(raws, now) ==
  FingerprintOfDedup(deduplicate_advisories[ParseAll[raws, 1, now]])

(***************************************************************************)
(* deduplicate_advisories and filter_high_risk called on their own         *)
(***************************************************************************)

\* A caller holds a list of advisories
CallInit ==
  /\ pc = "call"
  /\ parsed \in AdvLists
  /\ list_only = FALSE
  /\ clock = 1
  /\ raw_data = <<>>
  /\ advisories = <<>>
  /\ dup_descriptions = <<>>
  /\ prohibited = <<>>
  /\ high_risk = <<>>
  /\ verification = NewVerificationReport
  /\ assertions_passed = FALSE
  /\ artifacts = <<>>
  /\ exit_code = -1
  /\ extraction = NoExtraction

\* advisories, dup_descriptions = deduplicate_advisories(parsed)
DedupCall ==
  /\ pc = "call"
  /\ \E d \in {deduplicate_advisories[parsed]} :
       IF d.raised
       THEN /\ pc' = "raised"
            /\ UNCHANGED <<advisories, dup_descriptions>>
       ELSE /\ pc' = "deduplicated"
            /\ advisories' = d.advisories
            /\ dup_descriptions' = d.duplicates
  /\ UNCHANGED <<extraction, list_only, clock, raw_data, parsed, prohibited, high_risk, verification,
                 assertions_passed, artifacts, exit_code>>

\* prohibited, high_risk = filter_high_risk(advisories), advisories being
\* the caller's list as it is or as deduplicate_advisories returned it
FilterCall ==
  /\ pc \in {"call", "deduplicated"}
  /\ \E input \in {IF pc = "call" THEN parsed ELSE advisories} :
       \E f \in {filter_high_risk(input)} :
         /\ advisories' = input
         /\ prohibited' = f.prohibited
         /\ high_risk' = f.high_risk
  /\ pc' = "classified"
  /\ UNCHANGED <<extraction, list_only, clock, raw_data, parsed, dup_descriptions, verification,
                 assertions_passed, artifacts, exit_code>>

CallNext ==
  \/ DedupCall
  \/ FilterCall

CallSpec == CallInit /\ [][CallNext]_vars

(***************************************************************************)
(* VerificationReport.run_assertions called on its own                     *)
(***************************************************************************)

\* Longest list run_assertions is called with
MaxAssertList == 2
\* Most parse failures the report holds
MaxFailures == 5

\* The raw counts the report holds
RawCounts == {0, 1, 20, 100}

AssertPool ==
  { Adv("Cuba", "CU", 4, [t |-> 1, aware |-> TRUE], <<>>),
    Adv("Mali", "ML", 4, [t |-> 1, aware |-> TRUE], <<>>),
    Adv("Mali", "ML", 3, [t |-> 2, aware |-> TRUE], <<>>),
    Adv("Togo", "", 3, [t |-> 1, aware |-> TRUE], <<>>) }

AssertLists == UNION {[1..n -> AssertPool] : n \in 0..MaxAssertList}

\* A caller holds a VerificationReport with its counts set, and two lists
AssertInit ==
  /\ pc = "assert"
  /\ prohibited \in AssertLists
  /\ high_risk \in AssertLists
  /\ \E raw_count \in RawCounts : \E parse_failures \in 0..MaxFailures :
       /\ parse_failures <= raw_count
       /\ verification = [NewVerificationReport EXCEPT !.raw_count = raw_count,
                                                       !.parse_failures = parse_failures]
  /\ list_only = FALSE
  /\ clock = 1
  /\ raw_data = <<>>
  /\ parsed = <<>>
  /\ advisories = <<>>
  /\ dup_descriptions = <<>>
  /\ assertions_passed = FALSE
  /\ artifacts = <<>>
  /\ exit_code = -1
  /\ extraction = NoExtraction

\* assertions_passed = verification.run_assertions(prohibited, high_risk)
AssertCall ==
  /\ pc = "assert"
  /\ \E errors \in {run_assertions(verification, prohibited, high_risk)} :
       /\ verification' = [verification EXCEPT !.assertion_errors = errors]
       /\ assertions_passed' = (Len(errors) = 0)
  /\ pc' = "asserted"
  /\ UNCHANGED <<extraction, list_only, clock, raw_data, parsed, advisories, dup_descriptions,
                 prohibited, high_risk, artifacts, exit_code>>

AssertNext ==
  \/ AssertCall

AssertSpec == AssertInit /\ [][AssertNext]_vars

(***************************************************************************)
(* extract_regional_warnings called on its own                             *)
(***************************************************************************)

MaxSentences == 2
MaxLevel == 5

\* Sentences of advisory summaries: candidates of both patterns, one region
\* named inside another, country-wide and vague regions, and text neither
\* pattern matches
SentencePool ==
  <<"Do not travel to the Kidal region due to terrorism.",
    "Reconsider travel to Kidal due to crime.",
    "Reconsider travel to the area due to unrest.",
    "Do not travel to these areas due to floods.",
    "Reconsider travel to the entire country due to war.",
    "Do not travel to Gao due to kidnapping.",
    "<p>Exercise caution in the area.</p>">>

\* The sentences chosen, in order, with a space between two of them
JoinSentences[chosen \in Seq(1..Len(SentencePool))] ==
  IF Len(chosen) = 0 THEN ""
  ELSE IF Len(chosen) = 1 THEN SentencePool[chosen[1]]
  ELSE SentencePool[chosen[1]] \o " " \o JoinSentences[Tail(chosen)]

Summaries ==
  {JoinSentences[chosen] :
     chosen \in UNION {[1..n -> 1..Len(SentencePool)] : n \in 0..MaxSentences}}

\* A caller holds a summary and an overall level
ExtractInit ==
  /\ pc = "extract"
  /\ \E summary \in Summaries : \E overall_level \in 0..MaxLevel :
       extraction = [summary |-> summary, overall_level |-> overall_level,
                     warnings |-> <<>>]
  /\ list_only = FALSE
  /\ clock = 1
  /\ raw_data = <<>>
  /\ parsed = <<>>
  /\ advisories = <<>>
  /\ dup_descriptions = <<>>
  /\ prohibited = <<>>
  /\ high_risk = <<>>
  /\ verification = NewVerificationReport
  /\ assertions_passed = FALSE
  /\ artifacts = <<>>
  /\ exit_code = -1

\* warnings = extract_regional_warnings(summary, overall_level)
ExtractCall ==
  /\ pc = "extract"
  /\ extraction' =
       [extraction EXCEPT !.warnings =
          extract_regional_warnings[extraction.summary, extraction.overall_level]]
  /\ pc' = "extracted"
  /\ UNCHANGED <<list_only, clock, raw_data, parsed, advisories, dup_descriptions,
                 prohibited, high_risk, verification, assertions_passed, artifacts,
                 exit_code>>

ExtractNext ==
  \/ ExtractCall

ExtractSpec == ExtractInit /\ [][ExtractNext]_vars

(***************************************************************************)
(* Properties                                                              *)
(***************************************************************************)

Range(seq) == {seq[n] : n \in 1..Len(seq)}

HasLog == "log" \in Range(artifacts)
HasPdf == "pdf" \in Range(artifacts)

\* main() returned after the fetch succeeded
ReturnedPastFetch == pc = "returned" /\ exit_code # 1

\* advisories and dup_descriptions are what deduplicate_advisories returned
\* for parsed
Deduplicated ==
  \/ pc \in {"deduplicated", "classify", "verify", "branch", "rendered"}
  \/ ReturnedPastFetch

\* prohibited and high_risk are what filter_high_risk returned for
\* advisories
Classified ==
  \/ pc \in {"classified", "verify", "branch", "rendered"}
  \/ ReturnedPastFetch

\* No two advisories of the list share an identity key
DistinctKeys(seq) ==
  \A i, j \in 1..Len(seq) : dedup_key(seq[i]) = dedup_key(seq[j]) => i = j

SameKey(a, b) == dedup_key(a) = dedup_key(b)

\* C1: no advisory of the high-risk list filter_high_risk returns satisfies
\* is_prohibited_country, and every prohibited advisory of the input, a
\* level 4 one included, is in the prohibited list and not in the high-risk
\* list.
NoLeak ==
  Classified =>
    /\ \A n \in 1..Len(high_risk) : ~is_prohibited_country[high_risk[n].country_name]
    /\ \A n \in 1..Len(advisories) :
         is_prohibited_country[advisories[n].country_name] =>
           /\ advisories[n] \in Range(prohibited)
           /\ advisories[n] \notin Range(high_risk)

\* filter_high_risk has returned for an input with a level 4 prohibited
\* advisory and an advisory that went to the high-risk list
NoLeakWitness ==
  /\ Classified
  /\ high_risk # <<>>
  /\ \E n \in 1..Len(advisories) :
       /\ is_prohibited_country[advisories[n].country_name]
       /\ advisories[n].overall_level = 4

\* C2: the PDF is rendered only after run_assertions has returned True: in
\* no state of a run has create_report been invoked while the assertions
\* have not passed.
VerificationGate ==
  HasPdf =>
    /\ assertions_passed
    /\ verification.assertion_errors = <<>>
    /\ pc \in {"rendered", "returned"}

\* A run rendered the PDF and returned, and it had taken the test of the
\* assertions
VerificationGateWitness == pc = "returned" /\ HasPdf /\ ~list_only

\* C3: every run of main() that gets past the fetch has written the
\* verification log when it returns, in every mode, and the log is the
\* first artifact written: no PDF exists before it.
LogAlwaysFirst ==
  /\ ReturnedPastFetch => HasLog
  /\ artifacts # <<>> => artifacts[1] = "log"

\* C4: a run whose assertions failed returns a code other than 0 and the
\* fetch-failure code 1, with the log written and no PDF rendered; a run
\* returns 0 only when the assertions passed and the PDF was rendered.
ExitCodeContract ==
  ReturnedPastFetch =>
    /\ ~assertions_passed => exit_code \notin {0, 1} /\ HasLog /\ ~HasPdf
    /\ exit_code = 0 => assertions_passed /\ HasPdf

\* C5: a step of main() out of the fetch that does not hand a list to the
\* parse loop returns 1 with nothing parsed, nothing recorded in the
\* verification report and no artifact written, and main() takes no step
\* after it has returned.
FetchFailureStops ==
  [][/\ (pc = "fetch" /\ pc' # "parse") =>
          /\ pc' = "returned"
          /\ exit_code' = 1
          /\ raw_data' = <<>> /\ parsed' = <<>> /\ advisories' = <<>>
          /\ prohibited' = <<>> /\ high_risk' = <<>>
          /\ verification' = NewVerificationReport
          /\ artifacts' = <<>>
     /\ pc # "returned"]_vars

\* main() returned 1
FetchFailureWitness == pc = "returned" /\ exit_code = 1 /\ artifacts = <<>>

\* C6: when deduplicate_advisories returns, every identity key of the input
\* is the key of exactly one retained record, which is a record of the
\* input whose timestamp is no earlier than that of any input record with
\* the key.
DedupKeepsLatest ==
  Deduplicated =>
    /\ DistinctKeys(advisories)
    /\ \A i \in 1..Len(parsed) : \E n \in 1..Len(advisories) :
         /\ SameKey(advisories[n], parsed[i])
         /\ advisories[n].last_updated.t >= parsed[i].last_updated.t
    /\ Range(advisories) \subseteq Range(parsed)

\* deduplicate_advisories returned for an input where a record is followed
\* by an earlier-timestamped record of its key, and one where it is
\* followed by a later-timestamped one
DedupKeepsLatestWitness ==
  /\ Deduplicated
  /\ \E i, j \in 1..Len(parsed) :
       /\ i < j
       /\ SameKey(parsed[i], parsed[j])
       /\ parsed[i].last_updated.t > parsed[j].last_updated.t
  /\ \E i, j \in 1..Len(parsed) :
       /\ i < j
       /\ SameKey(parsed[i], parsed[j])
       /\ parsed[i].last_updated.t < parsed[j].last_updated.t

\* The input is two records of one identity key and one timestamp
TiedPair ==
  /\ Len(parsed) = 2
  /\ SameKey(parsed[1], parsed[2])
  /\ parsed[1].last_updated.t = parsed[2].last_updated.t

\* C7, as the specification states it: of two records of one identity key
\* and equal timestamps, the incoming (later-iterated) record is retained
\* and the earlier one is reported as dropped.
TieKeepsIncoming ==
  (Deduplicated /\ TiedPair) =>
    /\ advisories = <<parsed[2]>>
    /\ dup_descriptions = <<Dropped(parsed[1], parsed[2])>>

\* C7, as the code has it: the retained record of a key is the first of
\* the input records of that key that no earlier one equals or exceeds in
\* timestamp, so that of two records of one key and equal timestamps the
\* earlier-iterated one is retained and the incoming one is reported as
\* dropped.
TieKeepsExisting ==
  Deduplicated =>
    /\ \A n \in 1..Len(advisories) : \E i \in 1..Len(parsed) :
         /\ advisories[n] = parsed[i]
         /\ \A j \in 1..(i - 1) :
              SameKey(parsed[j], parsed[i]) =>
                parsed[j].last_updated.t < parsed[i].last_updated.t
    /\ TiedPair =>
         /\ advisories = <<parsed[1]>>
         /\ dup_descriptions = <<Dropped(parsed[2], parsed[1])>>

\* deduplicate_advisories returned for two different records of one key
\* and one timestamp
TieWitness ==
  /\ Deduplicated
  /\ TiedPair
  /\ parsed[1] # parsed[2]
  /\ Dropped(parsed[2], parsed[1]) # Dropped(parsed[1], parsed[2])

\* C8: for a deduplicated input, the two lists filter_high_risk returns
\* have no advisory in common, hold only advisories of the input, and hold
\* no advisory twice.
Partition ==
  (Classified /\ DistinctKeys(advisories)) =>
    /\ Range(prohibited) \cap Range(high_risk) = {}
    /\ Range(prohibited) \cup Range(high_risk) \subseteq Range(advisories)
    /\ Cardinality(Range(prohibited \o high_risk)) = Len(prohibited) + Len(high_risk)

\* filter_high_risk returned, for a deduplicated input, a prohibited list
\* and a high-risk list that are not empty, and left an advisory out of
\* both
PartitionWitness ==
  /\ Classified
  /\ DistinctKeys(advisories)
  /\ prohibited # <<>>
  /\ high_risk # <<>>
  /\ Range(advisories) \ (Range(prohibited) \cup Range(high_risk)) # {}

\* The routing rule: overall level >= 3, or a regional warning above the
\* overall level with the greatest regional level >= 3
Qualifies(a) ==
  \/ a.overall_level >= 3
  \/ /\ \E n \in 1..Len(a.regional_warnings) : a.regional_warnings[n].level > a.overall_level
     /\ \E n \in 1..Len(a.regional_warnings) : a.regional_warnings[n].level >= 3

\* C9: an advisory that is not prohibited is in the high-risk list exactly
\* when its overall level is >= 3 or it has a regional warning above its
\* overall level and its greatest regional level is >= 3; it is never in
\* the prohibited list.
HighRiskRouting ==
  Classified =>
    \A n \in 1..Len(advisories) :
      ~is_prohibited_country[advisories[n].country_name] =>
        /\ advisories[n] \in Range(high_risk) <=> Qualifies(advisories[n])
        /\ advisories[n] \notin Range(prohibited)

\* filter_high_risk returned for an input with a level 1 or 2 advisory it
\* routed to the high-risk list for its regional warnings, and one it
\* dropped
HighRiskRoutingWitness ==
  /\ Classified
  /\ \E n \in 1..Len(high_risk) : high_risk[n].overall_level < 3
  /\ \E n \in 1..Len(advisories) :
       /\ ~is_prohibited_country[advisories[n].country_name]
       /\ advisories[n] \notin Range(high_risk)

\* (-a.overall_level, -a.max_regional_level, a.country_name) is at most
\* the same key of b
RiskKeyLeq(a, b) ==
  \/ a.overall_level > b.overall_level
  \/ /\ a.overall_level = b.overall_level
     /\ \/ max_regional_level(a) > max_regional_level(b)
        \/ /\ max_regional_level(a) = max_regional_level(b)
           /\ ~StrLess[b.country_name, a.country_name]

\* C10: every adjacent pair of the high-risk list is in the order of the
\* key (-overall level, -maximum regional level, country name), so the
\* overall levels never rise along the list.
HighRiskOrder ==
  Classified =>
    /\ \A n \in 1..(Len(high_risk) - 1) : RiskKeyLeq(high_risk[n], high_risk[n + 1])
    /\ \A m, n \in 1..Len(high_risk) :
         m < n => high_risk[m].overall_level >= high_risk[n].overall_level

\* The high-risk list holds a pair ordered by overall level, a pair of one
\* overall level ordered by maximum regional level, and the input was not
\* in that order
HighRiskOrderWitness ==
  /\ Classified
  /\ \E n \in 1..(Len(high_risk) - 1) :
       high_risk[n].overall_level > high_risk[n + 1].overall_level
  /\ \E n \in 1..(Len(high_risk) - 1) :
       /\ high_risk[n].overall_level = high_risk[n + 1].overall_level
       /\ max_regional_level(high_risk[n]) > max_regional_level(high_risk[n + 1])
  /\ \E i, j \in 1..Len(advisories) :
       /\ i < j
       /\ advisories[i] \in Range(high_risk)
       /\ advisories[j] \in Range(high_risk)
       /\ ~RiskKeyLeq(advisories[i], advisories[j])

\* run_assertions has returned for verification, prohibited and high_risk
Asserted ==
  \/ pc \in {"asserted", "branch", "rendered"}
  \/ ReturnedPastFetch

\* The assertion errors of a kind that run_assertions recorded
ErrorsOf(kind) ==
  {n \in 1..Len(verification.assertion_errors) : verification.assertion_errors[n].kind = kind}

\* C11: with raw_count > 0, run_assertions records a parse-failure
\* violation exactly when 100 * parse_failures >= 5 * raw_count, and with
\* raw_count = 0 it records none.
ParseFailureBound ==
  Asserted =>
    (ErrorsOf("PARSE FAILURES") # {} <=>
       /\ verification.raw_count > 0
       /\ 100 * verification.parse_failures >= 5 * verification.raw_count)

\* run_assertions recorded the violation for exactly 5 failures out of 100
ParseFailureBoundWitness ==
  /\ Asserted
  /\ verification.raw_count = 100
  /\ verification.parse_failures = 5
  /\ ErrorsOf("PARSE FAILURES") # {}

\* The lists that hold the records of seq in another arrival order
Reorderings(seq) ==
  {[n \in 1..Len(seq) |-> seq[p[n]]] : p \in Permutations(1..Len(seq))}

\* C12: the fingerprint a run computed for its fetched list is the
\* fingerprint of the pipeline on every other arrival order of the same
\* records, whatever instant the clock shows in the other run.
FingerprintDeterminism ==
  pc = "verify" =>
    \A other \in Reorderings(raw_data) : \A now \in 1..MaxClock :
      FingerprintOf(other, now) = verification.data_hash

\* C13: no stage of a run raises an unhandled fault, whatever records the
\* fetch returned: a record with a missing, malformed or zone-less
\* timestamp never makes deduplicate_advisories raise.
NoUnhandledFault == pc # "raised"

\* The four conditions of run_assertions, on the state it was called in
LeakViolated ==
  \E n \in 1..Len(high_risk) : is_prohibited_country[high_risk[n].country_name]

ParseBoundViolated ==
  /\ verification.raw_count > 0
  /\ 100 * verification.parse_failures >= 5 * verification.raw_count

EmptyViolated == high_risk = <<>>

DuplicateViolated ==
  \E i, j \in 1..(Len(prohibited) + Len(high_risk)) :
    /\ i < j
    /\ (prohibited \o high_risk)[i].country_code # ""
    /\ (prohibited \o high_risk)[i].country_code = (prohibited \o high_risk)[j].country_code

\* C14: run_assertions returns True exactly when none of the four
\* conditions is violated, and its error list holds an entry of the kind of
\* every violated condition, and of no other, whichever conditions failed
\* before.
AllAssertionsEvaluated ==
  Asserted =>
    /\ assertions_passed <=>
         ~(LeakViolated \/ ParseBoundViolated \/ EmptyViolated \/ DuplicateViolated)
    /\ ErrorsOf("LEAK") # {} <=> LeakViolated
    /\ ErrorsOf("PARSE FAILURES") # {} <=> ParseBoundViolated
    /\ ErrorsOf("SANITY") # {} <=> EmptyViolated
    /\ ErrorsOf("DUPLICATE") # {} <=> DuplicateViolated

\* run_assertions returned with the leak, the parse-failure bound and the
\* duplicate-code conditions all violated and all three recorded
AllAssertionsEvaluatedWitness ==
  /\ Asserted
  /\ LeakViolated /\ ParseBoundViolated /\ DuplicateViolated
  /\ ErrorsOf("LEAK") # {}
  /\ ErrorsOf("PARSE FAILURES") # {}
  /\ ErrorsOf("DUPLICATE") # {}

\* One iteration of the parse loop discards the record exactly when its
\* title yields level 0 and a name that is not prohibited, and otherwise
\* appends an advisory with the name and level of the title
Level0Step ==
  (pc = "parse" /\ pc' = "parse") =>
    IF /\ parse_level_from_title[raw_data[Consumed + 1].Title].level = 0
       /\ ~is_prohibited_country[parse_level_from_title[raw_data[Consumed + 1].Title].name]
    THEN /\ parsed' = parsed
         /\ verification'.parse_failures = verification.parse_failures + 1
    ELSE /\ Len(parsed') = Len(parsed) + 1
         /\ SubSeq(parsed', 1, Len(parsed)) = parsed
         /\ parsed'[Len(parsed')].country_name =
              parse_level_from_title[raw_data[Consumed + 1].Title].name
         /\ parsed'[Len(parsed')].overall_level =
              parse_level_from_title[raw_data[Consumed + 1].Title].level
         /\ verification'.parse_failures = verification.parse_failures

\* Every level 0 advisory the parser built has a prohibited name, and after
\* filter_high_risk the level 0 advisories it was given are in the
\* prohibited list and none is in the high-risk list
Level0Routed ==
  /\ \A n \in 1..Len(parsed) :
       parsed[n].overall_level = 0 => is_prohibited_country[parsed[n].country_name]
  /\ Classified =>
       /\ \A n \in 1..Len(advisories) :
            advisories[n].overall_level = 0 => advisories[n] \in Range(prohibited)
       /\ \A n \in 1..Len(high_risk) : high_risk[n].overall_level # 0

\* C15: parse_advisory discards a record (a parse failure of main) when
\* its title yields level 0 and its name is not prohibited, retains a
\* level 0 record when its name is prohibited, and every level 0 advisory
\* that leaves the parser goes to the prohibited list and never to the
\* high-risk list.
Level0Retention == []Level0Routed /\ [][Level0Step]_vars

\* A run discarded a level 0 record, retained another, and routed it to
\* the prohibited list
Level0RetentionWitness ==
  /\ Classified
  /\ verification.parse_failures > 0
  /\ \E n \in 1..Len(prohibited) : prohibited[n].overall_level = 0


Extracted == pc = "extracted"

\* The candidates of a pass in the call's summary: the matches of the pass's
\* pattern in the cleaned text, whether or not the pass runs
CandidatesOf(level) == FindIter[clean_html[extraction.summary], level]

\* C16: every warning extract_regional_warnings returns has level 3 or 4 and a
\* level strictly greater than the overall level it was called with, so at
\* overall level 3 only level-4 warnings are returned and at overall level 4
\* (or more) none is
LevelGating ==
  Extracted =>
    /\ \A n \in 1..Len(extraction.warnings) :
         /\ extraction.warnings[n].level \in {3, 4}
         /\ extraction.warnings[n].level > extraction.overall_level
    /\ extraction.overall_level >= 4 => extraction.warnings = <<>>

\* A call at overall level 3 on a text with candidates of both patterns that
\* returned warnings
LevelGatingWitness ==
  /\ Extracted
  /\ extraction.overall_level = 3
  /\ Len(CandidatesOf(3)) > 0
  /\ Len(CandidatesOf(4)) > 0
  /\ Len(extraction.warnings) > 0

\* The survivors of one pass run on its own, from an empty warnings list
PassAlone(level) ==
  IF PassRuns(level, extraction.overall_level)
  THEN ExtractPass[CandidatesOf(level), 1, level, <<>>]
  ELSE <<>>

\* C17: the list extract_regional_warnings returns is the survivors of the
\* level-4 pass followed by the survivors of the level-3 pass run on its own,
\* so that no level-4 warning decides whether a level-3 candidate is accepted
PassIndependence ==
  Extracted => extraction.warnings = PassAlone(4) \o PassAlone(3)

\* The captured region text contains a country-wide qualifier or a vague
\* reference
HasRejectedPhrase(region) ==
  \/ \E n \in 1..Len(skip_phrases) : Contains[lower[region], skip_phrases[n]]
  \/ \E n \in 1..Len(vague_terms) : Contains[lower[region], vague_terms[n]]

\* The returned list holds the warning built from match m of a pass
EmittedFor(m, level) ==
  \E n \in 1..Len(extraction.warnings) :
    extraction.warnings[n] =
      [region_name |-> CleanRegion[m.region], level |-> level, reasons |-> m.reasons]

\* C18: extract_regional_warnings returns no warning for a candidate whose
\* captured region text contains a country-wide qualifier or a vague
\* reference, at any overall level and also when the phrase starts the text
CandidateRejection ==
  Extracted =>
    \A level \in {3, 4} : \A k \in 1..Len(CandidatesOf(level)) :
      HasRejectedPhrase(CandidatesOf(level)[k].region)
        => ~EmittedFor(CandidatesOf(level)[k], level)

\* The place in seq of the first record with the key
FirstSeen(seq, key) == Min[{i \in 1..Len(seq) : dedup_key(seq[i]) = key}]

\* C19: deduplicate_advisories returns exactly one record for each identity
\* key of its input, in the order in which the keys first occur in the input,
\* also when a later record has replaced the first record of a key
DedupKeyOrder ==
  Deduplicated =>
    /\ DistinctKeys(advisories)
    /\ {dedup_key(advisories[n]) : n \in 1..Len(advisories)}
         = {dedup_key(parsed[i]) : i \in 1..Len(parsed)}
    /\ \A m, n \in 1..Len(advisories) :
         m < n => FirstSeen(parsed, dedup_key(advisories[m]))
                    < FirstSeen(parsed, dedup_key(advisories[n]))

\* deduplicate_advisories returned for an input where a later record replaced
\* the first record of a key, and another key was first seen between the two
DedupKeyOrderWitness ==
  /\ Deduplicated
  /\ \E i, k, j \in 1..Len(parsed) :
       /\ i < k /\ k < j
       /\ SameKey(parsed[i], parsed[j])
       /\ ~SameKey(parsed[i], parsed[k])
       /\ parsed[j] \in Range(advisories)
       /\ parsed[i] \notin Range(advisories)

\* C20: every advisory parse_advisory has produced has an overall level in
\* 0..4, whatever digit follows "Level" in the title
LevelRange ==
  \A n \in 1..Len(parsed) : parsed[n].overall_level \in 0..4

\* main() is past line 1049: the parse loop and deduplicate_advisories are
\* over and their counts are in the verification record
CountsRecorded ==
  \/ pc \in {"classify", "verify", "branch", "rendered"}
  \/ ReturnedPastFetch

\* C21: once main() has parsed and deduplicated, the verification record has
\* raw_count = parsed_count + parse_failures, one failed title per parse
\* failure, parsed_count = after_dedup_count + duplicates_removed, and, once
\* the advisories are classified, no more records in the prohibited and the
\* high-risk list together than after_dedup_count
CountConservation ==
  CountsRecorded =>
    /\ verification.raw_count = Len(raw_data)
    /\ verification.raw_count = verification.parsed_count + verification.parse_failures
    /\ Len(verification.failed_titles) = verification.parse_failures
    /\ verification.parsed_count
         = verification.after_dedup_count + verification.duplicates_removed
    /\ verification.after_dedup_count = Len(advisories)
    /\ Classified => Len(prohibited) + Len(high_risk) <= verification.after_dedup_count

\* A classified run with a parse failure, a removed duplicate and a
\* deduplicated advisory that is in neither list
CountConservationWitness ==
  /\ CountsRecorded
  /\ Classified
  /\ verification.parse_failures > 0
  /\ verification.duplicates_removed > 0
  /\ Len(prohibited) + Len(high_risk) < verification.after_dedup_count

\* Two advisories with non-empty country codes that are equal when case is
\* ignored
SameCode(a, b) ==
  /\ a.country_code # ""
  /\ upper[a.country_code] = upper[b.country_code]

\* C22: when main() runs the assertions on the lists filter_high_risk made
\* of the deduplicated advisories, the duplicate-code assertion records no
\* violation: no two deduplicated advisories have the same non-empty country
\* code, even when case is ignored, and no advisory is in the lists twice
NoDuplicateCodes ==
  /\ Deduplicated =>
       \A i, j \in 1..Len(advisories) : SameCode(advisories[i], advisories[j]) => i = j
  /\ Asserted => ErrorsOf("DUPLICATE") = {}

\* main() ran the assertions on an input with two high-risk records of one
\* code and a third whose code differs from theirs in case only
NoDuplicateCodesWitness ==
  /\ Asserted
  /\ \E i, j, k \in 1..Len(parsed) :
       /\ i # j
       /\ parsed[i].country_code # ""
       /\ parsed[i].country_code = parsed[j].country_code
       /\ parsed[k].country_code # parsed[i].country_code
       /\ SameCode(parsed[i], parsed[k])
       /\ \A n \in {i, j, k} : Qualifies(parsed[n]) /\ ~is_prohibited_country[parsed[n].country_name]
====
